---- MODULE Spec2Model ----
(***************************************************************************)
(* Model of the round/phase engine of webjadok.py: the main loop, the      *)
(* Action Sequence Pile, melee/ranged/Joker resolution, refortify and the  *)
(* end-of-game check, together with the Card/Player helper operations.     *)
(*                                                                         *)
(* A card instance is a Python object.  Deck.__init__ builds the deck as   *)
(* load_cards_from_csv(...) * 2 and appends one Joker object twice, so     *)
(* every object occurs at two positions of the deck; the model keeps the   *)
(* object identity (a number) apart from the positions that refer to it.   *)
(***************************************************************************)
EXTENDS Integers, Sequences, FiniteSets, TLC

\* ---------------------------------------------------------------- bounds
MaxIdx == 2       \* index inputs are drawn from 0 .. MaxIdx-1
MaxAsp == 3       \* cards committed to the ASP in one placement phase
MaxRounds == 1    \* rounds played in full before the model stops
WallAspLimit == 5 \* ASP commits per placement phase in the wall scenario
EndAspLimit == 1  \* ASP commits per placement phase in the end-of-game scenario
ScoreAspLimit == 3 \* ASP commits per placement phase in the scoring scenario
MeleeAspLimit == 2 \* ASP commits per placement phase in the melee scenario
RangedAspLimit == 3 \* ASP commits per placement phase in the ranged scenario
TargetAspLimit == 4 \* ASP commits per placement phase in the melee-target scenario
RefortifyAspLimit == 3 \* ASP commits per placement phase in the refortify scenario
JokerAspLimit == 5 \* ASP commits per placement phase in the Joker scenario
MaxDamage == 2    \* largest damage passed to Card.take_damage
MaxDiscard == 3   \* discard pile length up to which the Card/Player calls are made

\* ------------------------------------------------------ program constants
WallCapacity == 14
DealCount == 20
WallDeal == 10
JokerBase == 2

\* ---------------------------------------------------------------- catalog
\* The card table read by Deck.load_cards_from_csv (the CSV itself is not in
\* the repository).  Ability texts are matched by substring in the code; the
\* catalog texts here are the matched keywords themselves.
Catalog ==
  << [name |-> "Jack of Clubs", is_a_character |-> TRUE, attack_type |-> "Melee",
      attack_value |-> 2, action_point |-> 1, damage_points |-> 2, sub_class |-> "Jack",
      cast_ability |-> "-", special_ability_trigger |-> FALSE, special_ability |-> "-"],
     [name |-> "King of Hearts", is_a_character |-> TRUE, attack_type |-> "Melee",
      attack_value |-> 1, action_point |-> 1, damage_points |-> 2, sub_class |-> "King",
      cast_ability |-> "-", special_ability_trigger |-> FALSE, special_ability |-> "-"],
     [name |-> "Queen of Spades", is_a_character |-> TRUE, attack_type |-> "Ranged",
      attack_value |-> 1, action_point |-> 1, damage_points |-> 1, sub_class |-> "Queen",
      cast_ability |-> "-", special_ability_trigger |-> FALSE, special_ability |-> "-"],
     [name |-> "7", is_a_character |-> FALSE, attack_type |-> "-",
      attack_value |-> 0, action_point |-> 0, damage_points |-> 1, sub_class |-> "-",
      cast_ability |-> "Trap", special_ability_trigger |-> FALSE, special_ability |-> "Trap"],
     [name |-> "Ten", is_a_character |-> FALSE, attack_type |-> "-",
      attack_value |-> 0, action_point |-> 0, damage_points |-> 1, sub_class |-> "-",
      cast_ability |-> "Draws 2 Cards", special_ability_trigger |-> FALSE, special_ability |-> "-"],
     [name |-> "Magic", is_a_character |-> FALSE, attack_type |-> "-",
      attack_value |-> 0, action_point |-> 0, damage_points |-> 1, sub_class |-> "-",
      cast_ability |-> "Magical Block or Damage", special_ability_trigger |-> FALSE, special_ability |-> "-"],
     [name |-> "Ammo", is_a_character |-> FALSE, attack_type |-> "-",
      attack_value |-> 0, action_point |-> 0, damage_points |-> 1, sub_class |-> "-",
      cast_ability |-> "Ammo dealing", special_ability_trigger |-> FALSE, special_ability |-> "-"],
     [name |-> "Ace of Spades", is_a_character |-> TRUE, attack_type |-> "Melee",
      attack_value |-> 3, action_point |-> 1, damage_points |-> 3, sub_class |-> "Ace",
      cast_ability |-> "-", special_ability_trigger |-> TRUE,
      special_ability |-> "destroys any character that used a successful melee attack"],
     [name |-> "3 of Clubs", is_a_character |-> TRUE, attack_type |-> "Ranged",
      attack_value |-> 1, action_point |-> 1, damage_points |-> 1, sub_class |-> "3",
      cast_ability |-> "-", special_ability_trigger |-> FALSE, special_ability |-> "-"],
     [name |-> "Heavy Armor", is_a_character |-> FALSE, attack_type |-> "-",
      attack_value |-> 0, action_point |-> 0, damage_points |-> 1, sub_class |-> "-",
      cast_ability |-> "Heavy armor block", special_ability_trigger |-> FALSE, special_ability |-> "-"] >>

NCatalog == Len(Catalog)

\* Deck.create_joker_card
JokerCard ==
  [name |-> "Joker", is_a_character |-> FALSE, attack_type |-> "Ranged",
   attack_value |-> 2, action_point |-> 0, damage_points |-> 1, sub_class |-> "-",
   cast_ability |-> "Uber Damage", special_ability_trigger |-> TRUE,
   special_ability |-> "Deals unblockable damage"]

\* ------------------------------------------------------------ identities
Players == {1, 2}                 \* game_state.players[0], players[1]
NoPlayer == 0                     \* card.player = None
NoCard == 0                       \* None returned by Deck.draw
KindsPerDeck == NCatalog + 1      \* kind 0 is the Joker object of a deck
Cards == 1 .. 2 * KindsPerDeck    \* the Card objects of both decks

DeckOf(c) == IF c <= KindsPerDeck THEN 1 ELSE 2
KindOf(c) == (c - 1) % KindsPerDeck
CardId(p, k) == (p - 1) * KindsPerDeck + k + 1
Attr(c) == IF KindOf(c) = 0 THEN JokerCard ELSE Catalog[KindOf(c)]

TwoEyedJacks == {"Jack of Clubs", "Jack of Diamonds"}

\* Card.is_trap
is_trap(c) == Attr(c).name = "7"

\* GameState.opponent: next(p for p in self.players if p != player); with
\* player = None the first player is returned.
opponent(p) == IF p = 1 THEN 2 ELSE 1

\* ------------------------------------------------------ sequence helpers
Reverse(s) == [i \in 1 .. Len(s) |-> s[Len(s) + 1 - i]]
Contains(s, x) == \E i \in 1 .. Len(s) : s[i] = x
\* list.pop(i) with a 0-based index i
PopAt(s, i) == SubSeq(s, 1, i) \o SubSeq(s, i + 2, Len(s))
FirstIndex(s, x) == CHOOSE i \in 1 .. Len(s) : s[i] = x /\ \A j \in 1 .. i - 1 : s[j] # x
\* list.remove(x): removes the first occurrence
RemoveFirst(s, x) == PopAt(s, FirstIndex(s, x) - 1)
Occurrences(s, x) == Cardinality({i \in 1 .. Len(s) : s[i] = x})

\* ---------------------------------------------------------------- shuffles
\* Orders in which the positions of the built deck leave the shuffled deck
\* (first drawn first: ten wall cards, ten hand cards, the rest of the deck).
\* random.shuffle can produce any permutation; the model explores these.
DrawOrderA == << 4, 2, 6, 7, 9, 10, 3, 8, 5, 21,   1, 14, 13, 11, 16, 22, 15, 12, 17, 18,   19, 20 >>
DrawOrderB == << 3, 8, 1, 7, 9, 10, 4, 21, 6, 11,   2, 5, 22, 13, 16, 12, 14, 15, 17, 18,   20, 19 >>

\* The games explored: the two players' shuffles and whether the CSV column
\* 'Action Point' was read as text ('1', '-') or as numbers.
Setups == { << DrawOrderA, DrawOrderB, FALSE >>, << DrawOrderB, DrawOrderA, TRUE >> }

\* Deck.__init__ appending the Joker once
BuildDeckOneJoker(p, n) ==
  [i \in 1 .. 2 * n |-> CardId(p, ((i - 1) % n) + 1)] \o << CardId(p, 0) >>

\* Deck.__init__ before the shuffle, with n rows loaded from the card file:
\* the loaded list twice, then the one Joker object twice
BuildDeck(p, n) ==
  [i \in 1 .. 2 * n |-> CardId(p, ((i - 1) % n) + 1)] \o << CardId(p, 0), CardId(p, 0) >>

\* random.shuffle: the built deck in the order given, as far as the order
\* names positions the deck has
Shuffle(built, order) ==
  LET keep == SelectSeq(order, LAMBDA x : x <= Len(built))
  IN [i \in 1 .. Len(keep) |-> built[keep[i]]]

\* Deck.draw pops from the end of the list
LoadedDeck(p, n, order) == Reverse(Shuffle(BuildDeck(p, n), order))
ShuffledDeck(p, order) == LoadedDeck(p, NCatalog, order)

VARIABLES
  deck,             \* decks[name].cards
  hand, wall, battlement_zone, field_zone, discard_pile,   \* Player lists
  asp,              \* RoundManager.asp: sequence of <<player, card>>
  damage_points,    \* Card.damage_points
  action_point,     \* Card.action_point, as a number
  ap_is_str,        \* TRUE when Card.action_point holds text ('1'), FALSE when an int
  card_player,      \* Card.player
  has_attacked,     \* Card.has_attacked
  pc,               \* position of main()
  cur,              \* the player the running phase is serving
  round,            \* number of the round being played
  unused_action_points,    \* local of refortify_phase
  placed,           \* history: ASP commits of this round, in order
  resolved,         \* history: ASP entries resolved this round, in order
  round_start_count,       \* history: card references per player at round start
  movement_done,    \* history: players whose Movement prompt was answered this round
  melee_attackers,  \* history: players that made a melee attack this round
  last_op           \* history: the last operation and its arguments

vars == << deck, hand, wall, battlement_zone, field_zone, discard_pile, asp,
           damage_points, action_point, ap_is_str, card_player, has_attacked, pc, cur,
           round,
           unused_action_points, placed, resolved, round_start_count,
           movement_done, melee_attackers, last_op >>

zones == << deck, hand, wall, battlement_zone, field_zone, discard_pile, asp >>
cardstate == << damage_points, action_point, ap_is_str, card_player, has_attacked >>
history == << placed, resolved, round_start_count, movement_done, melee_attackers >>
roundhist == << round_start_count, movement_done, melee_attackers >>

\* Number of references held for player p (ASP entries count as in flight)
AspOf(p) == Cardinality({i \in 1 .. Len(asp) : asp[i][1] = p})
RefCount(p) == Len(deck[p]) + Len(hand[p]) + Len(wall[p]) + Len(battlement_zone[p])
               + Len(field_zone[p]) + Len(discard_pile[p]) + AspOf(p)

\* Card.__init__: initial action point
InitialActionPoint(c) == IF Attr(c).name \in TwoEyedJacks THEN 2 ELSE Attr(c).action_point

\* GameState.assign_initial_cards: twenty calls of Deck.draw, each giving the
\* last card of the deck, or None once the deck is empty
Dealt(d) == [i \in 1 .. DealCount |-> IF i <= Len(d) THEN d[Len(d) + 1 - i] ELSE NoCard]
AfterDeal(d) == IF Len(d) > DealCount THEN SubSeq(d, 1, Len(d) - DealCount) ELSE << >>

\* The state GameState.__init__ leaves when the card file gave n rows
Constructed(n) ==
  \E setup \in Setups :
    LET text == setup[3]
        full == [p \in Players |-> LoadedDeck(p, n, setup[p])]
        drawn == [p \in Players |-> Dealt(full[p])]
    IN /\ deck = [p \in Players |-> AfterDeal(full[p])]
       /\ wall = [p \in Players |-> SubSeq(drawn[p], 1, WallDeal)]
       /\ hand = [p \in Players |-> SubSeq(drawn[p], WallDeal + 1, DealCount)]
       /\ battlement_zone = [p \in Players |-> << >>]
       /\ field_zone = [p \in Players |-> << >>]
       /\ discard_pile = [p \in Players |-> << >>]
       /\ asp = << >>
       /\ damage_points = [c \in Cards |-> Attr(c).damage_points]
       /\ action_point = [c \in Cards |-> InitialActionPoint(c)]
       /\ ap_is_str = [c \in Cards |-> text /\ KindOf(c) # 0 /\ Attr(c).name \notin TwoEyedJacks]
       /\ card_player = [c \in Cards |-> NoPlayer]
       /\ has_attacked = [c \in Cards |-> FALSE]
       /\ pc = "draw"
       /\ cur = 1
       /\ round = 1
       /\ unused_action_points = 0
       /\ placed = << >>
       /\ resolved = << >>
       /\ round_start_count = [p \in Players |-> 2 * n + 2]
       /\ movement_done = {}
       /\ melee_attackers = {}
       /\ last_op = [op |-> "init"]

\* The game starts with the whole catalog loaded
Init == Constructed(NCatalog)

\* The mutable program state as one record, so that a handler can be composed
\* from the handlers it calls.  crashed is set when an exception leaves main().
Cur ==
  [deck |-> deck, hand |-> hand, wall |-> wall, bz |-> battlement_zone,
   fz |-> field_zone, dis |-> discard_pile, dp |-> damage_points,
   ap |-> action_point, str |-> ap_is_str, crashed |-> FALSE]

Crash(s) == [s EXCEPT !.crashed = TRUE]

\* The state s becomes the next state; main() continues at nextpc unless an
\* exception was raised.
Becomes(s, nextpc, nextcur) ==
  /\ deck' = s.deck
  /\ hand' = s.hand
  /\ wall' = s.wall
  /\ battlement_zone' = s.bz
  /\ field_zone' = s.fz
  /\ discard_pile' = s.dis
  /\ damage_points' = s.dp
  /\ action_point' = s.ap
  /\ ap_is_str' = s.str
  /\ pc' = IF s.crashed THEN "crashed" ELSE nextpc
  /\ cur' = IF s.crashed THEN cur ELSE nextcur
  /\ UNCHANGED << card_player, has_attacked >>

\* Deck.draw + Player.draw_card: the drawn card goes to the hand; an empty
\* deck leaves everything as it is.
draw_card(s, p) ==
  IF Len(s.deck[p]) = 0 THEN s
  ELSE [s EXCEPT !.deck[p] = SubSeq(s.deck[p], 1, Len(s.deck[p]) - 1),
                 !.hand[p] = Append(s.hand[p], s.deck[p][Len(s.deck[p])])]

\* Player.discard_card
discard_card(s, p, c) ==
  IF Contains(s.hand[p], c)
  THEN [s EXCEPT !.hand[p] = RemoveFirst(s.hand[p], c), !.dis[p] = Append(s.dis[p], c)]
  ELSE s

\* Player.place_card_in_wall with the capacity test off by one
place_card_in_wall_le(s, p, c) ==
  IF Len(s.wall[p]) <= WallCapacity
  THEN [s EXCEPT !.wall[p] = Append(s.wall[p], c)]
  ELSE [s EXCEPT !.dis[p] = Append(s.dis[p], c)]

\* Player.place_card_in_wall
place_card_in_wall(s, p, c) ==
  IF Len(s.wall[p]) < WallCapacity
  THEN [s EXCEPT !.wall[p] = Append(s.wall[p], c)]
  ELSE [s EXCEPT !.dis[p] = Append(s.dis[p], c)]

\* RoundManager.start_draw_phase, called by main for each player in turn
StartDrawPhase(I) ==
  /\ pc = "draw"
  /\ round <= MaxRounds
  /\ \E choice \in I.draw :
       /\ Becomes(IF choice = "yes" THEN draw_card(Cur, cur) ELSE Cur,
                  IF cur = 1 THEN "draw" ELSE "asp_place",
                  IF cur = 1 THEN 2 ELSE 1)
       /\ last_op' = [op |-> "draw", player |-> cur, choice |-> choice]
  /\ IF cur = 1 THEN UNCHANGED << placed, resolved >>
     ELSE placed' = << >> /\ resolved' = << >>
  /\ UNCHANGED << asp, round, unused_action_points, round_start_count,
                  movement_done, melee_attackers >>

\* Player.choose_action_for_asp + one turn of RoundManager.handle_asp_actions
HandleAspActions(I) ==
  /\ pc = "asp_place"
  /\ \/ \E card_index \in I.idx :
          /\ card_index < Len(hand[cur])
          /\ Len(placed) < I.maxasp
          /\ asp' = Append(asp, << cur, hand[cur][card_index + 1] >>)
          /\ placed' = Append(placed, << cur, hand[cur][card_index + 1] >>)
          /\ Becomes([Cur EXCEPT !.hand[cur] = PopAt(hand[cur], card_index)],
                     "asp_place", opponent(cur))
          /\ last_op' = [op |-> "commit", player |-> cur, card |-> hand[cur][card_index + 1]]
     \/ /\ Becomes(Cur, "asp_resolve", cur)          \* 'token'
        /\ last_op' = [op |-> "token", player |-> cur]
        /\ UNCHANGED << asp, placed >>
     \/ /\ "stats" \in I.asp
        /\ Becomes(Cur, "asp_place", opponent(cur))  \* 'stats'
        /\ last_op' = [op |-> "stats", player |-> cur]
        /\ UNCHANGED << asp, placed >>
  /\ UNCHANGED << round, unused_action_points, resolved, round_start_count,
                  movement_done, melee_attackers >>

\* Player.has_characters_in_any_zone
has_characters_in_any_zone(s, p) ==
  \E i \in 1 .. Len(s.bz[p] \o s.fz[p]) : Attr((s.bz[p] \o s.fz[p])[i]).is_a_character

Zone(s, p, zone) == IF zone = "battlement_zone" THEN s.bz[p] ELSE s.fz[p]

\* Player.calculate_joker_damage from position i of the chosen zone on: the
\* cards are visited in order; card.action_point.isdigit() raises
\* AttributeError when the action point is an int; a card with text action
\* points > 0 is offered, and the positions in yes answer 'yes'.
RECURSIVE calculate_joker_damage(_, _, _, _, _)
calculate_joker_damage(s, cards, i, yes, bonus_damage) ==
  IF i > Len(cards) THEN [s |-> s, bonus_damage |-> bonus_damage]
  ELSE LET card == cards[i]
       IN IF ~s.str[card] THEN [s |-> Crash(s), bonus_damage |-> bonus_damage]
          ELSE IF s.ap[card] > 0 /\ i \in yes
               THEN calculate_joker_damage([s EXCEPT !.ap[card] = s.ap[card] - 1],
                                           cards, i + 1, yes, bonus_damage + 1)
               ELSE calculate_joker_damage(s, cards, i + 1, yes, bonus_damage)

\* Player.choose_target_zone: the argument is 'battlement_zone' or
\* 'field_zone', never 'bz', so the else branch decides.
choose_target_zone(s, p, bonus_damage_zone) ==
  IF bonus_damage_zone = "bz"
  THEN (IF Len(s.fz[opponent(p)]) > 0 THEN "field_zone" ELSE "wall")
  ELSE (IF Len(s.fz[opponent(p)]) = 0 THEN "battlement_zone" ELSE "wall")

\* Player.damage_wall: one card leaves the front of the wall per damage point
RECURSIVE damage_wall(_, _, _)
damage_wall(s, tp, damage) ==
  IF damage > 0 /\ Len(s.wall[tp]) > 0
  THEN damage_wall([s EXCEPT !.wall[tp] = Tail(s.wall[tp]),
                             !.dis[tp] = Append(s.dis[tp], Head(s.wall[tp]))],
                   tp, damage - 1)
  ELSE s

\* Player.damage_characters: the local damage is never decremented, so the
\* loop runs until the zone is empty.  The attacker answers index idx while
\* it is valid and the last index otherwise (an invalid index is asked again).
RECURSIVE damage_characters(_, _, _, _, _)
damage_characters(s, tp, target_zone, damage, idx) ==
  LET characters == Zone(s, tp, target_zone)
  IN IF damage > 0 /\ Len(characters) > 0
     THEN LET index_choice == IF idx < Len(characters) THEN idx ELSE Len(characters) - 1
              character == characters[index_choice + 1]
              hit == [s EXCEPT !.dp[character] = s.dp[character] - 1]
              gone == IF target_zone = "battlement_zone"
                      THEN [hit EXCEPT !.dis[tp] = Append(hit.dis[tp], character),
                                       !.bz[tp] = PopAt(hit.bz[tp], index_choice)]
                      ELSE [hit EXCEPT !.dis[tp] = Append(hit.dis[tp], character),
                                       !.fz[tp] = PopAt(hit.fz[tp], index_choice)]
          IN damage_characters(IF hit.dp[character] <= 0 THEN gone ELSE hit,
                               tp, target_zone, damage, idx)
     ELSE s

\* Player.apply_joker_damage
apply_joker_damage(s, p, target_zone, total_damage, idx) ==
  IF target_zone = "wall" THEN damage_wall(s, opponent(p), total_damage)
  ELSE damage_characters(s, opponent(p), target_zone, total_damage, idx)

\* Player.resolve_joker
resolve_joker(s, p, joker, zone, yes, idx) ==
  IF ~has_characters_in_any_zone(s, p)
  THEN [s EXCEPT !.dis[p] = Append(s.dis[p], joker)]
  ELSE LET r == calculate_joker_damage(s, Zone(s, p, zone), 1, yes, JokerBase)
       IN IF r.s.crashed THEN r.s
          ELSE apply_joker_damage(r.s, p, choose_target_zone(r.s, p, zone),
                                  r.bonus_damage, idx)

\* Player.handle_draw_two_cards_ability: any answer but 'self' is the opponent
handle_draw_two_cards_ability(s, p, choice) ==
  LET target_player == IF choice = "self" THEN p ELSE opponent(p)
  IN draw_card(draw_card(s, target_player), target_player)

\* Player.execute_ability_based_on_text.  handle_ammo_ability,
\* handle_magical_block_or_damage, handle_instant_block and
\* handle_armor_block_or_damage are not defined (AttributeError), and
\* handle_uber_damage calls the undefined self.select_target.
execute_ability_based_on_text(s, p, ability_text, choice) ==
  CASE ability_text = "Draws 2 Cards" -> handle_draw_two_cards_ability(s, p, choice)
    [] ability_text = "Heavy armor block" -> s
    [] ability_text \in {"Ammo dealing", "Magical Block or Damage", "Instant block",
                         "Armor Block or Damage", "Uber Damage"} -> Crash(s)
    [] OTHER -> s

\* Player.resolve_character_card.  activate_special_ability runs
\* invulnerability_to_magic_ranged (sets a flag nothing reads) or
\* retribution_effect (acts on cards flagged has_attacked, a flag only the
\* uncalled resolve_attack sets): neither changes the modelled state.
resolve_character_card(s, p, c, zone) ==
  IF zone = "battlement_zone" THEN [s EXCEPT !.bz[p] = Append(s.bz[p], c)]
  ELSE [s EXCEPT !.fz[p] = Append(s.fz[p], c)]

\* Player.reveal_and_resolve_card: a Joker is resolved and then, not being a
\* character, also goes through resolve_non_character_card_ability.
reveal_and_resolve_card(s, p, c, in) ==
  LET s1 == IF Attr(c).name = "Joker" THEN resolve_joker(s, p, c, in.zone, in.yes, in.idx) ELSE s
  IN IF s1.crashed THEN s1
     ELSE IF Attr(c).is_a_character THEN resolve_character_card(s1, p, c, in.zone)
     ELSE execute_ability_based_on_text(s1, p, Attr(c).cast_ability, in.choice)

\* RoundManager.handle_trap_card: resolve_melee_trap and resolve_ranged_trap
\* are not defined; any other attack type does nothing with the card.
handle_trap_card(s, p, c) ==
  IF Attr(c).attack_type \in {"melee", "ranged"} THEN Crash(s) ELSE s

\* The inputs a reveal can ask for; only those the card's path reads vary.
RevealInputs(s, p, c) ==
  IF Attr(c).name = "Joker"
  THEN IF has_characters_in_any_zone(s, p)
       THEN [zone : {"battlement_zone", "field_zone"}, yes : SUBSET (1 .. MaxIdx),
             idx : 0 .. MaxIdx - 1, choice : {"self"}]
       ELSE [zone : {"field_zone"}, yes : {{}}, idx : {0}, choice : {"self"}]
  ELSE IF Attr(c).is_a_character
       THEN [zone : {"battlement_zone", "field_zone"}, yes : {{}}, idx : {0}, choice : {"self"}]
       ELSE IF Attr(c).cast_ability = "Draws 2 Cards"
            THEN [zone : {"field_zone"}, yes : {{}}, idx : {0}, choice : {"self", "opponent"}]
            ELSE [zone : {"field_zone"}, yes : {{}}, idx : {0}, choice : {"self"}]

\* self.asp.pop() taking the entry at the other end
asp_pop_front(a) == [entry |-> Head(a), rest |-> Tail(a)]

\* self.asp.pop() in RoundManager.resolve_asp: the last entry leaves the pile
asp_pop(a) == [entry |-> a[Len(a)], rest |-> SubSeq(a, 1, Len(a) - 1)]

\* RoundManager.resolve_asp (one iteration) + resolve_asp_card
ResolveAspCard(I) ==
  /\ pc = "asp_resolve"
  /\ Len(asp) > 0
  /\ LET player == asp_pop(asp).entry[1]
         card == asp_pop(asp).entry[2]
     IN /\ asp' = asp_pop(asp).rest
        /\ resolved' = Append(resolved, << player, card >>)
        /\ IF is_trap(card)
           THEN /\ Becomes(handle_trap_card(Cur, player, card), "asp_resolve", cur)
                /\ last_op' = [op |-> "trap", player |-> player, card |-> card]
           ELSE \/ \E in \in RevealInputs(Cur, player, card) :
                     /\ "1" \in I.resolve
                     /\ Becomes(reveal_and_resolve_card(Cur, player, card, in), "asp_resolve", cur)
                     /\ last_op' = [op |-> "reveal", player |-> player, card |-> card, in |-> in]
                \/ /\ "2" \in I.resolve
                   /\ Becomes(discard_card(Cur, player, card), "asp_resolve", cur)
                   /\ last_op' = [op |-> "discard", player |-> player, card |-> card]
                \/ /\ "3" \in I.resolve
                   /\ Becomes(place_card_in_wall(Cur, player, card), "asp_resolve", cur)
                   /\ last_op' = [op |-> "place", player |-> player, card |-> card,
                                  wall_before |-> Len(wall[player])]
  /\ UNCHANGED << round, unused_action_points, placed, round_start_count,
                  movement_done, melee_attackers >>

\* RoundManager.resolve_asp leaving its loop whether or not the pile is empty
ResolveAspDoneEarly ==
  /\ pc = "asp_resolve"
  /\ Becomes(Cur, "movement", 1)
  /\ last_op' = [op |-> "asp_done"]
  /\ UNCHANGED << asp, round, unused_action_points, placed, resolved,
                  round_start_count, movement_done, melee_attackers >>

\* RoundManager.resolve_asp with the pile empty: handle_asp_actions returns,
\* the second resolve_asp call of main finds nothing, and
\* move_and_melee_phase starts with the first player.
ResolveAspDone ==
  /\ pc = "asp_resolve"
  /\ Len(asp) = 0
  /\ Becomes(Cur, "movement", 1)
  /\ last_op' = [op |-> "asp_done"]
  /\ UNCHANGED << asp, round, unused_action_points, placed, resolved,
                  round_start_count, movement_done, melee_attackers >>

\* ---------------------------------------------------------------- movement
\* sorted(indices, reverse=True)
RECURSIVE InsertDesc(_, _)
InsertDesc(x, s) ==
  IF s = << >> THEN << x >>
  ELSE IF x >= Head(s) THEN << x >> \o s ELSE << Head(s) >> \o InsertDesc(x, Tail(s))

RECURSIVE SortedDesc(_)
SortedDesc(s) == IF s = << >> THEN << >> ELSE InsertDesc(Head(s), SortedDesc(Tail(s)))

\* The loop of handle_player_movement over the sorted indices: pop(idx)
\* raises IndexError (not caught by "except ValueError") when an index
\* repeated in the input no longer exists.
RECURSIVE MoveEach(_, _, _)
MoveEach(s, p, idxs) ==
  IF idxs = << >> THEN s
  ELSE IF Head(idxs) >= Len(s.bz[p]) THEN Crash(s)
  ELSE MoveEach([s EXCEPT !.bz[p] = PopAt(s.bz[p], Head(idxs)),
                          !.fz[p] = Append(s.fz[p], s.bz[p][Head(idxs) + 1])],
                p, Tail(idxs))

\* RoundManager.handle_player_movement
handle_player_movement(s, p, indices) ==
  IF Len(s.bz[p]) = 0 THEN s
  ELSE IF \E i \in 1 .. Len(indices) : ~(0 <= indices[i] /\ indices[i] < Len(s.bz[p])) THEN s
  ELSE MoveEach(s, p, SortedDesc(indices))

\* Index lists a player can type in the Movement phase
IndexLists(idx) == UNION {[1 .. n -> idx] : n \in 0 .. Cardinality(idx)}

\* RoundManager.move_and_melee_phase, Movement part for the current player
MovementPhase(I) ==
  /\ pc = "movement"
  /\ \/ /\ "no" \in I.movement
        /\ Becomes(Cur, "melee", cur)
        /\ last_op' = [op |-> "movement", player |-> cur, choice |-> "no"]
     \/ /\ "yes" \in I.movement
        /\ \E indices \in IndexLists(I.idx) :
             /\ Becomes(handle_player_movement(Cur, cur, indices), "melee", cur)
             /\ last_op' = [op |-> "movement", player |-> cur, choice |-> "yes"]
  /\ movement_done' = movement_done \cup {cur}
  /\ UNCHANGED << asp, round, unused_action_points, placed, resolved,
                  round_start_count, melee_attackers >>

\* ------------------------------------------------------------------- melee
\* RoundManager.apply_damage_to_target: the destroyed target is filed with
\* game_state.opponent(attacking_card.player).
apply_damage_to_target(s, attacking_card, target, owner) ==
  LET hit == [s EXCEPT !.dp[target] = s.dp[target] - Attr(attacking_card).attack_value]
      target_player == opponent(owner[attacking_card])
  IN IF hit.dp[target] <= 0
     THEN LET filed == [hit EXCEPT !.dis[target_player] = Append(hit.dis[target_player], target)]
          IN IF Contains(filed.fz[target_player], target)
             THEN [filed EXCEPT !.fz[target_player] = RemoveFirst(filed.fz[target_player], target)]
             ELSE filed
     ELSE hit

\* RoundManager.select_melee_target: the list the attacker chooses from
available_targets(s, attacking_player) ==
  LET opp == opponent(attacking_player)
  IN s.fz[opp] \o (IF Len(s.fz[opp]) = 0 THEN s.wall[opp] ELSE << >>)

\* RoundManager.perform_selected_melee_action without the test of the
\* attacker's action points
perform_selected_melee_action_unchecked(s, attacking_player, selected_card, target_index, owner) ==
  LET s1 == [s EXCEPT !.str[selected_card] = FALSE]
      targets == available_targets(s1, attacking_player)
  IN IF Len(targets) = 0 THEN s1
     ELSE LET s2 == apply_damage_to_target(s1, selected_card, targets[target_index + 1], owner)
          IN [s2 EXCEPT !.ap[selected_card] = s2.ap[selected_card] - 1]

\* RoundManager.perform_selected_melee_action with the chosen target index
perform_selected_melee_action(s, attacking_player, selected_card, target_index, owner) ==
  LET s1 == [s EXCEPT !.str[selected_card] = FALSE]
      targets == available_targets(s1, attacking_player)
  IN IF s1.ap[selected_card] <= 0 THEN s1
     ELSE IF Len(targets) = 0 THEN s1
     ELSE LET s2 == apply_damage_to_target(s1, selected_card, targets[target_index + 1], owner)
          IN [s2 EXCEPT !.ap[selected_card] = s2.ap[selected_card] - 1]

\* RoundManager.handle_melee_actions: the list offered to the player
melee_characters(s, p) ==
  LET Eligible(c) == Attr(c).attack_type = "Melee" /\ s.ap[c] > 0
  IN SelectSeq(s.fz[p], Eligible)

AfterMelee == IF cur = 1 THEN "movement" ELSE "ranged"

\* RoundManager.handle_melee_actions, one selection
MeleeAction(I) ==
  /\ pc = "melee"
  /\ \E index_choice \in I.idx, target_index \in I.idx :
       /\ index_choice < Len(melee_characters(Cur, cur))
       /\ target_index < Len(available_targets(Cur, cur)) \/ target_index = 0
       /\ LET selected_card == melee_characters(Cur, cur)[index_choice + 1]
          IN /\ Becomes(perform_selected_melee_action(Cur, cur, selected_card, target_index,
                                                      card_player), "melee", cur)
             /\ last_op' = [op |-> "melee", player |-> cur, card |-> selected_card,
                            target |-> IF Len(available_targets(Cur, cur)) = 0 THEN 0
                                       ELSE available_targets(Cur, cur)[target_index + 1]]
             /\ melee_attackers' = IF Len(available_targets(Cur, cur)) = 0 THEN melee_attackers
                                   ELSE melee_attackers \cup {cur}
  /\ UNCHANGED << asp, round, unused_action_points, placed, resolved,
                  round_start_count, movement_done >>

\* The Melee prompt answered 'no', the loop left with 'pass', or no melee
\* character with action points left: the next player's Movement follows,
\* or the Ranged phase after the second player.
MeleeEnd(I) ==
  /\ pc = "melee"
  /\ "pass" \in I.melee \/ Len(melee_characters(Cur, cur)) = 0
  /\ Becomes(Cur, AfterMelee, opponent(cur))
  /\ last_op' = [op |-> "melee_end", player |-> cur]
  /\ UNCHANGED << asp, round, unused_action_points, history >>

\* ------------------------------------------------------------------ ranged
\* RoundManager.handle_ranged_actions: the list offered to the player
ranged_characters(s, p) ==
  LET Eligible(c) == Attr(c).attack_type = "Ranged" /\ s.ap[c] > 0
  IN SelectSeq(s.fz[p] \o s.bz[p], Eligible)

\* RoundManager.check_source_of_damage: the card name required for a
\* sub-class, "" for none
required_source(sub_class) ==
  IF sub_class \in {"2", "3", "Jack"} THEN "Ammo"
  ELSE IF sub_class \in {"8", "9", "Queen"} THEN "Magic"
  ELSE ""

damage_source(c) == required_source(Attr(c).sub_class)

\* RoundManager.check_source_of_damage, its result for a card of the given
\* sub-class
has_source_for(s, p, sub_class) ==
  /\ required_source(sub_class) # ""
  /\ \E i \in 1 .. Len(s.hand[p]) : Attr(s.hand[p][i]).name = required_source(sub_class)

\* RoundManager.check_source_of_damage, the state it leaves: the first hand
\* card with the required name goes to the discard pile.
check_source_for(s, p, sub_class) ==
  IF has_source_for(s, p, sub_class)
  THEN LET i == CHOOSE i \in 1 .. Len(s.hand[p]) :
                  /\ Attr(s.hand[p][i]).name = required_source(sub_class)
                  /\ \A j \in 1 .. i - 1 : Attr(s.hand[p][j]).name # required_source(sub_class)
       IN [s EXCEPT !.hand[p] = RemoveFirst(s.hand[p], s.hand[p][i]),
                    !.dis[p] = Append(s.dis[p], s.hand[p][i])]
  ELSE s

has_source(s, p, c) == has_source_for(s, p, Attr(c).sub_class)

check_source_of_damage(s, p, c) == check_source_for(s, p, Attr(c).sub_class)

\* RoundManager.perform_selected_ranged_action: handle_bz_ranged_attack calls
\* the undefined Card.is_joker and handle_fz_ranged_attack is not defined, so
\* both branches raise AttributeError before the action point is removed.
perform_selected_ranged_action(s, p, selected_card) ==
  IF Contains(s.bz[p], selected_card) \/ Contains(s.fz[p], selected_card) THEN Crash(s)
  ELSE [s EXCEPT !.ap[selected_card] = s.ap[selected_card] - 1]

\* Player.calculate_unused_action_points
RECURSIVE SumAp(_, _)
SumAp(s, cards) ==
  IF cards = << >> THEN 0
  ELSE (IF s.ap[Head(cards)] > 0 THEN s.ap[Head(cards)] ELSE 0) + SumAp(s, Tail(cards))

calculate_unused_action_points(s, p) == SumAp(s, s.fz[p] \o s.bz[p])

\* The body of handle_ranged_actions for a valid index, without the call of
\* check_source_of_damage
selected_ranged_action_unchecked(s, p, selected_card) ==
  perform_selected_ranged_action(s, p, selected_card)

\* The body of handle_ranged_actions for a valid index: the action is
\* performed only if check_source_of_damage found and discarded the source
selected_ranged_action(s, p, selected_card) ==
  IF has_source(s, p, selected_card)
  THEN perform_selected_ranged_action(check_source_of_damage(s, p, selected_card), p,
                                      selected_card)
  ELSE s

\* RoundManager.handle_ranged_actions, one selection
RangedAction(I) ==
  /\ pc = "ranged"
  /\ \E index_choice \in I.idx :
       /\ index_choice < Len(ranged_characters(Cur, cur))
       /\ LET selected_card == ranged_characters(Cur, cur)[index_choice + 1]
          IN /\ Becomes(selected_ranged_action(Cur, cur, selected_card), "ranged", cur)
             /\ last_op' = [op |-> "ranged", player |-> cur, card |-> selected_card,
                            source |-> has_source(Cur, cur, selected_card)]
  /\ UNCHANGED << asp, round, unused_action_points, history >>

\* 'pass', or no ranged character with action points: the next player's
\* ranged actions follow, or the first player's Refortify phase.
RangedEnd(I) ==
  /\ pc = "ranged"
  /\ "pass" \in I.ranged \/ Len(ranged_characters(Cur, cur)) = 0
  /\ Becomes(Cur, IF cur = 1 THEN "ranged" ELSE "refortify", opponent(cur))
  /\ unused_action_points' = IF cur = 1 THEN unused_action_points
                             ELSE calculate_unused_action_points(Cur, 1)
  /\ last_op' = [op |-> "ranged_end", player |-> cur]
  /\ UNCHANGED << asp, round, history >>

\* --------------------------------------------------------------- refortify
\* Player.has_card
has_card(s, p, card_name) == \E i \in 1 .. Len(s.hand[p]) : Attr(s.hand[p][i]).name = card_name

\* Player.discard_specific_card reads card.rank, which Card does not have:
\* AttributeError on the first hand card.
discard_specific_card(s, p, rank) == IF Len(s.hand[p]) > 0 THEN Crash(s) ELSE s

\* RoundManager.handle_place_card_action with the index typed
handle_place_card_action(s, p, card_index) ==
  IF Len(s.hand[p]) = 0 THEN s
  ELSE IF 0 <= card_index /\ card_index < Len(s.hand[p])
       THEN place_card_in_wall([s EXCEPT !.hand[p] = PopAt(s.hand[p], card_index)],
                                p, s.hand[p][card_index + 1])
       ELSE s

\* RoundManager.refortify_phase, one command, without the line
\* unused_action_points -= 1
RefortifyCommandFree(I) ==
  /\ pc = "refortify"
  /\ unused_action_points > 0
  /\ "discard" \in I.refortify
  /\ Becomes(Cur, "refortify", cur)
  /\ last_op' = [op |-> "refortify_noop", player |-> cur]
  /\ UNCHANGED << asp, round, unused_action_points, history >>

\* RoundManager.refortify_phase, one command that costs a point
RefortifyCommand(I) ==
  /\ pc = "refortify"
  /\ unused_action_points > 0
  /\ \/ /\ "draw" \in I.refortify
        /\ Becomes(IF has_card(Cur, cur, "Ten")
                   THEN (LET d == discard_specific_card(Cur, cur, "Ten")
                         IN IF d.crashed THEN d ELSE draw_card(d, cur))
                   ELSE Cur, "refortify", cur)
        /\ last_op' = [op |-> "refortify_draw", player |-> cur]
     \/ /\ "place" \in I.refortify
        /\ \E card_index \in I.idx \cup {MaxIdx} :
             /\ card_index < Len(hand[cur]) \/ card_index = MaxIdx
             /\ Becomes(handle_place_card_action(Cur, cur, card_index), "refortify", cur)
             /\ last_op' = IF card_index < Len(hand[cur])
                           THEN [op |-> "place", player |-> cur, card |-> hand[cur][card_index + 1],
                                 wall_before |-> Len(wall[cur])]
                           ELSE [op |-> "refortify_place_invalid", player |-> cur]
     \/ /\ "discard" \in I.refortify       \* discard_card_from_hand has no body
        /\ Becomes(Cur, "refortify", cur)
        /\ last_op' = [op |-> "refortify_noop", player |-> cur]
  /\ unused_action_points' = unused_action_points - 1
  /\ UNCHANGED << asp, round, history >>

\* 'continue', or the budget is used up: the second player's Refortify
\* follows, or the end-of-round check.
RefortifyEnd(I) ==
  /\ pc = "refortify"
  /\ "continue" \in I.refortify \/ unused_action_points = 0
  /\ Becomes(Cur, IF cur = 1 THEN "refortify" ELSE "end_check", opponent(cur))
  /\ unused_action_points' = IF cur = 1 THEN calculate_unused_action_points(Cur, 2) ELSE 0
  /\ last_op' = [op |-> "refortify_end", player |-> cur]
  /\ UNCHANGED << asp, round, history >>

\* ------------------------------------------------------------ end of round
\* GameState.check_game_end_conditions without the loop over the decks
check_game_end_conditions_no_decks(s) ==
  \E p \in Players : Len(s.hand[p]) = 0 /\ Len(s.fz[p]) = 0 /\ Len(s.wall[p]) = 0

\* GameState.check_game_end_conditions
check_game_end_conditions(s) ==
  \/ \E p \in Players : Len(s.hand[p]) = 0 /\ Len(s.fz[p]) = 0 /\ Len(s.wall[p]) = 0
  \/ \E p \in Players : Len(s.deck[p]) = 0

is_a_character(c) == Attr(c).is_a_character

\* GameState.calculate_points: list entries are counted, not distinct cards
calculate_points(s, p) ==
  2 * Cardinality({i \in 1 .. Len(s.fz[p]) : is_a_character(s.fz[p][i])})
  + 2 * Cardinality({i \in 1 .. Len(s.wall[p]) : is_trap(s.wall[p][i])})

\* max(points, key=points.get) returning the last player with the lowest score
determine_winner_min(s) ==
  LET points == [p \in Players |-> calculate_points(s, p)]
      winner == IF points[2] <= points[1] THEN 2 ELSE 1
  IN [winner |-> winner, points |-> points[winner]]

\* GameState.determine_winner: max() keeps the first of equal maxima, and
\* the players are iterated in seating order
determine_winner(s) ==
  LET points == [p \in Players |-> calculate_points(s, p)]
      winner == IF points[1] >= points[2] THEN 1 ELSE 2
  IN [winner |-> winner, points |-> points[winner]]

\* The end of the loop body of main: the game is over and the winner is
\* announced, or the next round starts with the first player's draw.
EndCheck ==
  /\ pc = "end_check"
  /\ IF check_game_end_conditions(Cur)
     THEN /\ Becomes(Cur, "game_over", cur)
          /\ last_op' = [op |-> "game_over", winner |-> determine_winner(Cur).winner,
                         points |-> determine_winner(Cur).points]
          /\ UNCHANGED << round, round_start_count, movement_done, melee_attackers >>
     ELSE /\ Becomes(Cur, "draw", 1)
          /\ last_op' = [op |-> "end_check"]
          /\ round' = round + 1
          /\ round_start_count' = [p \in Players |-> RefCount(p)]
          /\ movement_done' = {}
          /\ melee_attackers' = {}
  /\ UNCHANGED << asp, unused_action_points, placed, resolved >>

AllIdx == 0 .. MaxIdx - 1

\* Every answer the prompts accept
AllInputs ==
  [draw |-> {"yes", "no"}, asp |-> {"card", "token", "stats"}, idx |-> AllIdx,
   maxasp |-> MaxAsp, resolve |-> {"1", "2", "3"}, movement |-> {"yes", "no"},
   melee |-> {"pass"}, ranged |-> {"pass"},
   refortify |-> {"draw", "place", "discard", "continue"}]

Next ==
  \/ StartDrawPhase(AllInputs)
  \/ HandleAspActions(AllInputs)
  \/ ResolveAspCard(AllInputs)
  \/ ResolveAspDone
  \/ MovementPhase(AllInputs)
  \/ MeleeAction(AllInputs)
  \/ MeleeEnd(AllInputs)
  \/ RangedAction(AllInputs)
  \/ RangedEnd(AllInputs)
  \/ RefortifyCommand(AllInputs)
  \/ RefortifyEnd(AllInputs)
  \/ EndCheck

Spec == Init /\ [][Next]_vars

\* ---------------------------------------------------------------------
\* The Draw and ASP phases of a round, with every answer the prompts accept
\* and commits taken from the first two hand positions.
AspInputs == [AllInputs EXCEPT !.idx = {0, 1}]

NextAsp ==
  \/ StartDrawPhase(AspInputs)
  \/ HandleAspActions(AspInputs)
  \/ ResolveAspCard(AspInputs)
  \/ ResolveAspDone

SpecAsp == Init /\ [][NextAsp]_vars

\* ---------------------------------------------------------------------
\* A round in which the players fill their walls: nobody draws, every commit
\* takes the first hand card, ASP cards are revealed or placed, and Refortify
\* points are spent on placing.
WallInputs ==
  [draw |-> {"no"}, asp |-> {"card", "token", "stats"}, idx |-> {0},
   maxasp |-> WallAspLimit, resolve |-> {"1", "3"}, movement |-> {"no"},
   melee |-> {"pass"}, ranged |-> {"pass"}, refortify |-> {"place", "continue"}]

NextWall ==
  \/ StartDrawPhase(WallInputs)
  \/ HandleAspActions(WallInputs)
  \/ ResolveAspCard(WallInputs)
  \/ ResolveAspDone
  \/ MovementPhase(WallInputs)
  \/ MeleeEnd(WallInputs)
  \/ RangedEnd(WallInputs)
  \/ RefortifyCommand(WallInputs)
  \/ RefortifyEnd(WallInputs)

SpecWall == Init /\ [][NextWall]_vars

\* ---------------------------------------------------------------------
\* Games played for their end: the players draw or not, commit a card or
\* place the token, reveal or discard what they committed, and pass every
\* later phase.
EndInputs ==
  [draw |-> {"yes", "no"}, asp |-> {"card", "token"}, idx |-> AllIdx,
   maxasp |-> EndAspLimit, resolve |-> {"1", "2"}, movement |-> {"no"},
   melee |-> {"pass"}, ranged |-> {"pass"}, refortify |-> {"continue"}]

NextEnd ==
  \/ StartDrawPhase(EndInputs)
  \/ HandleAspActions(EndInputs)
  \/ ResolveAspCard(EndInputs)
  \/ ResolveAspDone
  \/ MovementPhase(EndInputs)
  \/ MeleeEnd(EndInputs)
  \/ RangedEnd(EndInputs)
  \/ RefortifyEnd(EndInputs)
  \/ EndCheck

SpecEnd == Init /\ [][NextEnd]_vars

\* ---------------------------------------------------------------------
\* The destruction operations of Card and Player, called in any order on the
\* characters a round has put into the zones.

\* Card.destroy_card: files the card with self.player when that is set
destroy_card(s, c, owner) ==
  IF owner[c] # NoPlayer
  THEN LET filed == [s EXCEPT !.dis[owner[c]] = Append(s.dis[owner[c]], c)]
       IN IF Contains(filed.fz[owner[c]], c)
          THEN [filed EXCEPT !.fz[owner[c]] = RemoveFirst(filed.fz[owner[c]], c)]
          ELSE filed
  ELSE s

\* Card.take_damage
take_damage(s, c, damage, owner) ==
  LET hit == [s EXCEPT !.dp[c] = s.dp[c] - damage]
  IN IF hit.dp[c] <= 0 THEN destroy_card(hit, c, owner) ELSE hit

\* Player.remove_from_zone_and_discard
remove_from_zone_and_discard(s, p, c) ==
  LET removed == IF Contains(s.fz[p], c)
                 THEN [s EXCEPT !.fz[p] = RemoveFirst(s.fz[p], c)]
                 ELSE IF Contains(s.bz[p], c)
                      THEN [s EXCEPT !.bz[p] = RemoveFirst(s.bz[p], c)]
                      ELSE s
  IN [removed EXCEPT !.dis[p] = Append(removed.dis[p], c)]

\* The cards the calls are made on: the characters revealed in this round
Revealed == {resolved[i][2] : i \in 1 .. Len(resolved)}

\* The calls stop once a discard pile or a card's damage is past the bounds
CallsOpen ==
  /\ pc = "movement"
  /\ cur = 1
  /\ \A p \in Players : Len(discard_pile[p]) < MaxDiscard

\* Card.set_player
SetPlayer ==
  /\ CallsOpen
  /\ \E c \in Revealed :
       /\ card_player[c] = NoPlayer
       /\ card_player' = [card_player EXCEPT ![c] = DeckOf(c)]
       /\ last_op' = [op |-> "set_player", card |-> c]
  /\ UNCHANGED << zones, damage_points, action_point, ap_is_str, has_attacked, pc, cur,
                  round, unused_action_points, history >>

TakeDamage ==
  /\ CallsOpen
  /\ \E c \in Revealed, damage \in 1 .. MaxDamage :
       /\ damage_points[c] > -MaxDamage
       /\ Becomes(take_damage(Cur, c, damage, card_player), pc, cur)
       /\ last_op' = [op |-> "take_damage", card |-> c]
  /\ UNCHANGED << asp, round, unused_action_points, history >>

DestroyCard ==
  /\ CallsOpen
  /\ \E c \in Revealed :
       /\ Becomes(destroy_card(Cur, c, card_player), pc, cur)
       /\ last_op' = [op |-> "destroy_card", card |-> c]
  /\ UNCHANGED << asp, round, unused_action_points, history >>

RemoveFromZoneAndDiscard ==
  /\ CallsOpen
  /\ \E c \in Revealed :
       /\ Becomes(remove_from_zone_and_discard(Cur, DeckOf(c), c), pc, cur)
       /\ last_op' = [op |-> "remove_from_zone_and_discard", card |-> c]
  /\ UNCHANGED << asp, round, unused_action_points, history >>

\* The round up to the end of ASP resolution: each player may commit the
\* first hand card, and every committed card is revealed.
DestroyInputs ==
  [draw |-> {"no"}, asp |-> {"card", "token"}, idx |-> {0}, maxasp |-> 2,
   resolve |-> {"1"}, movement |-> {"no"}, melee |-> {"pass"},
   ranged |-> {"pass"}, refortify |-> {"continue"}]

NextDestroy ==
  \/ StartDrawPhase(DestroyInputs)
  \/ HandleAspActions(DestroyInputs)
  \/ ResolveAspCard(DestroyInputs)
  \/ ResolveAspDone
  \/ SetPlayer
  \/ TakeDamage
  \/ DestroyCard
  \/ RemoveFromZoneAndDiscard

SpecDestroy == Init /\ [][NextDestroy]_vars

\* ---------------------------------------------------------------------
\* Games played for their score: the players draw or not, commit up to
\* ScoreAspLimit cards or place the token, reveal what they committed, move
\* or not, and pass every later phase.
ScoreInputs ==
  [draw |-> {"yes", "no"}, asp |-> {"card", "token"}, idx |-> {0, 1},
   maxasp |-> ScoreAspLimit, resolve |-> {"1"}, movement |-> {"yes", "no"},
   melee |-> {"pass"}, ranged |-> {"pass"}, refortify |-> {"continue"}]

NextScore ==
  \/ StartDrawPhase(ScoreInputs)
  \/ HandleAspActions(ScoreInputs)
  \/ ResolveAspCard(ScoreInputs)
  \/ ResolveAspDone
  \/ MovementPhase(ScoreInputs)
  \/ MeleeEnd(ScoreInputs)
  \/ RangedEnd(ScoreInputs)
  \/ RefortifyEnd(ScoreInputs)
  \/ EndCheck

SpecScore == Init /\ [][NextScore]_vars

\* ---------------------------------------------------------------------
\* Construction with a card file of any length up to the catalog (a file
\* that cannot be read gives no rows), followed by calls of Player.draw_card.
InitDeal == \E n \in 0 .. NCatalog : Constructed(n)

DrawCard ==
  /\ \E p \in Players :
       /\ Becomes(draw_card(Cur, p), pc, cur)
       /\ last_op' = [op |-> "draw_card", player |-> p, drew |-> Len(deck[p]) > 0]
  /\ UNCHANGED << asp, round, unused_action_points, history >>

\* Player.handle_draw_two_cards_ability called for player p; "x" stands for
\* any answer that is neither 'self' nor 'opponent'
DrawTwoCards ==
  /\ \E p \in Players, choice \in {"self", "opponent", "x"} :
       /\ Becomes(handle_draw_two_cards_ability(Cur, p, choice), pc, cur)
       /\ last_op' = [op |-> "draw_two", player |-> p, choice |-> choice]
  /\ UNCHANGED << asp, round, unused_action_points, history >>

NextDeal ==
  \/ DrawCard
  \/ DrawTwoCards

SpecDeal == InitDeal /\ [][NextDeal]_vars

\* ---------------------------------------------------------------------
\* The Draw and ASP phases of rounds in which every committed card is
\* revealed: long enough piles for a Joker to meet characters on both sides.
JokerInputs ==
  [draw |-> {"no"}, asp |-> {"card", "token", "stats"}, idx |-> {0, 1},
   maxasp |-> JokerAspLimit, resolve |-> {"1"}, movement |-> {"no"},
   melee |-> {"pass"}, ranged |-> {"pass"}, refortify |-> {"continue"}]

NextJoker ==
  \/ StartDrawPhase(JokerInputs)
  \/ HandleAspActions(JokerInputs)
  \/ ResolveAspCard(JokerInputs)
  \/ ResolveAspDone

SpecJoker == Init /\ [][NextJoker]_vars

\* ---------------------------------------------------------------------
\* Rounds played up to the Melee phase, where
\* RoundManager.perform_selected_melee_action is also called for any card of
\* the player's field zone, whatever its action points.
PerformSelectedMeleeAction ==
  /\ pc = "melee"
  /\ \E i \in 1 .. Len(field_zone[cur]), target_index \in AllIdx :
       /\ target_index < Len(available_targets(Cur, cur)) \/ target_index = 0
       /\ LET selected_card == field_zone[cur][i]
          IN /\ Becomes(perform_selected_melee_action(Cur, cur, selected_card, target_index,
                                                      card_player), "melee", cur)
             /\ last_op' = [op |-> "perform_melee", player |-> cur, card |-> selected_card,
                            ap_before |-> action_point[selected_card]]
             /\ melee_attackers' =
                  IF action_point[selected_card] > 0 /\ Len(available_targets(Cur, cur)) > 0
                  THEN melee_attackers \cup {cur} ELSE melee_attackers
  /\ UNCHANGED << asp, round, unused_action_points, placed, resolved,
                  round_start_count, movement_done >>

MeleeInputs ==
  [draw |-> {"no"}, asp |-> {"card", "token"}, idx |-> {0, 1},
   maxasp |-> MeleeAspLimit, resolve |-> {"1"}, movement |-> {"yes", "no"},
   melee |-> {"pass"}, ranged |-> {"pass"}, refortify |-> {"continue"}]

NextMelee ==
  \/ StartDrawPhase(MeleeInputs)
  \/ HandleAspActions(MeleeInputs)
  \/ ResolveAspCard(MeleeInputs)
  \/ ResolveAspDone
  \/ MovementPhase(MeleeInputs)
  \/ MeleeAction(MeleeInputs)
  \/ PerformSelectedMeleeAction
  \/ MeleeEnd(MeleeInputs)

SpecMelee == Init /\ [][NextMelee]_vars

\* ---------------------------------------------------------------------
\* Rounds played up to the Ranged phase: nobody draws, up to RangedAspLimit
\* cards from the first three hand positions are committed and then revealed
\* or placed in the wall, and nobody moves or attacks in melee.
RangedInputs ==
  [draw |-> {"no"}, asp |-> {"card", "token", "stats"}, idx |-> {0, 1, 2},
   maxasp |-> RangedAspLimit, resolve |-> {"1", "3"}, movement |-> {"no"},
   melee |-> {"pass"}, ranged |-> {"pass"}, refortify |-> {"continue"}]

NextRanged ==
  \/ StartDrawPhase(RangedInputs)
  \/ HandleAspActions(RangedInputs)
  \/ ResolveAspCard(RangedInputs)
  \/ ResolveAspDone
  \/ MovementPhase(RangedInputs)
  \/ MeleeEnd(RangedInputs)
  \/ RangedAction(RangedInputs)
  \/ RangedEnd(RangedInputs)

SpecRanged == Init /\ [][NextRanged]_vars

\* ---------------------------------------------------------------------
\* The melee scenario with RoundManager.calculate_joker_damage also called
\* for the player whose Melee phase is running.

\* RoundManager.calculate_joker_damage from position i of the field zone on:
\* every card whose question is answered 'yes' loses an action point
\* (card.action_point -= 1 raises TypeError on a text value)
RECURSIVE rm_calculate_joker_damage(_, _, _, _, _)
rm_calculate_joker_damage(s, cards, i, yes, total_damage) ==
  IF i > Len(cards) THEN [s |-> s, total_damage |-> total_damage]
  ELSE IF i \in yes
       THEN IF s.str[cards[i]] THEN [s |-> Crash(s), total_damage |-> total_damage]
            ELSE rm_calculate_joker_damage([s EXCEPT !.ap[cards[i]] = s.ap[cards[i]] - 1],
                                           cards, i + 1, yes, total_damage + 1)
       ELSE rm_calculate_joker_damage(s, cards, i + 1, yes, total_damage)

CalculateJokerDamage ==
  /\ pc = "melee"
  /\ field_zone[cur] # << >>
  /\ \A c \in Cards : action_point[c] >= 0
  /\ \E yes \in SUBSET (1 .. Len(field_zone[cur])) :
       /\ Becomes(rm_calculate_joker_damage(Cur, field_zone[cur], 1, yes, JokerBase).s,
                  "melee", cur)
       /\ last_op' = [op |-> "calculate_joker_damage", player |-> cur, yes |-> yes]
  /\ UNCHANGED << asp, round, unused_action_points, history >>

NextPoints ==
  \/ StartDrawPhase(MeleeInputs)
  \/ HandleAspActions(MeleeInputs)
  \/ ResolveAspCard(MeleeInputs)
  \/ ResolveAspDone
  \/ MovementPhase(MeleeInputs)
  \/ MeleeAction(MeleeInputs)
  \/ CalculateJokerDamage
  \/ MeleeEnd(MeleeInputs)

SpecPoints == Init /\ [][NextPoints]_vars

\* ---------------------------------------------------------------------
\* Rounds played up to the Melee phase in which both players reveal up to
\* two cards each from their first three hand positions, so that attackers
\* meet field zones, battlement zones and walls that hold cards.
TargetInputs ==
  [draw |-> {"no"}, asp |-> {"card", "token"}, idx |-> {0, 1, 2},
   maxasp |-> TargetAspLimit, resolve |-> {"1"}, movement |-> {"no"},
   melee |-> {"pass"}, ranged |-> {"pass"}, refortify |-> {"continue"}]

NextTarget ==
  \/ StartDrawPhase(TargetInputs)
  \/ HandleAspActions(TargetInputs)
  \/ ResolveAspCard(TargetInputs)
  \/ ResolveAspDone
  \/ MovementPhase(TargetInputs)
  \/ MeleeAction(TargetInputs)
  \/ MeleeEnd(TargetInputs)

SpecTarget == Init /\ [][NextTarget]_vars

\* ---------------------------------------------------------------------
\* The melee scenario with Player.damage_wall also called on its own during
\* the Melee phase, so that attackers meet opponents whose field zone and
\* wall are both empty (in the rounds main plays the wall only shrinks in a
\* Joker reveal, which ends with an uncaught exception).
DamageWallSingle ==
  /\ pc = "melee"
  /\ \E damage \in 1 .. MaxDamage :
       /\ Len(wall[opponent(cur)]) > 0
       /\ Becomes(damage_wall(Cur, opponent(cur), 1), "melee", cur)
       /\ last_op' = [op |-> "damage_wall", player |-> cur, damage |-> damage,
                      wall_cards |-> Len(wall[opponent(cur)])]
  /\ UNCHANGED << asp, round, unused_action_points, history >>

DamageWall ==
  /\ pc = "melee"
  /\ \E damage \in 1 .. MaxDamage :
       /\ Len(wall[opponent(cur)]) > 0
       /\ Becomes(damage_wall(Cur, opponent(cur), damage), "melee", cur)
       /\ last_op' = [op |-> "damage_wall", player |-> cur, damage |-> damage,
                      wall_cards |-> Len(wall[opponent(cur)])]
  /\ UNCHANGED << asp, round, unused_action_points, history >>

NextSpend ==
  \/ StartDrawPhase(MeleeInputs)
  \/ HandleAspActions(MeleeInputs)
  \/ ResolveAspCard(MeleeInputs)
  \/ ResolveAspDone
  \/ MovementPhase(MeleeInputs)
  \/ MeleeAction(MeleeInputs)
  \/ DamageWall
  \/ MeleeEnd(MeleeInputs)

SpecSpend == Init /\ [][NextSpend]_vars

\* ---------------------------------------------------------------------
\* The melee scenario with RoundManager.resolve_attack, which no phase
\* calls, also called for a field-zone card of the player in the Melee phase.

\* RoundManager.resolve_attack: its first statement reads
\* attacking_player.attack_value and attacking_player.damage_bonus, which a
\* Player does not have (AttributeError), so the statements after it,
\* attacking_card.has_attacked = True among them, are not executed.
resolve_attack(s, attacking_card, attacking_player, target, target_player) == Crash(s)

ResolveAttack ==
  /\ pc = "melee"
  /\ \E i \in 1 .. Len(field_zone[cur]), j \in 1 .. Len(available_targets(Cur, cur)) :
       /\ Becomes(resolve_attack(Cur, field_zone[cur][i], cur,
                                 available_targets(Cur, cur)[j], opponent(cur)),
                  "melee", cur)
       /\ last_op' = [op |-> "resolve_attack", player |-> cur, card |-> field_zone[cur][i],
                      target |-> available_targets(Cur, cur)[j]]
  /\ UNCHANGED << asp, round, unused_action_points, history >>

NextFlag ==
  \/ StartDrawPhase(MeleeInputs)
  \/ HandleAspActions(MeleeInputs)
  \/ ResolveAspCard(MeleeInputs)
  \/ ResolveAspDone
  \/ MovementPhase(MeleeInputs)
  \/ MeleeAction(MeleeInputs)
  \/ ResolveAttack
  \/ MeleeEnd(MeleeInputs)

SpecFlag == Init /\ [][NextFlag]_vars

\* ---------------------------------------------------------------------
\* The ranged scenario with RoundManager.check_source_of_damage also called
\* on its own, for the player in the Ranged phase and a ranged character of
\* any sub-class.

\* The sub-classes RoundManager.check_source_of_damage names and those of
\* the catalog's characters
SubClasses ==
  {"2", "3", "Jack", "8", "9", "Queen"}
    \cup {Catalog[k].sub_class : k \in {i \in 1 .. NCatalog : Catalog[i].is_a_character}}

CheckSourceOfDamage ==
  /\ pc = "ranged"
  /\ \E sub_class \in SubClasses :
       /\ Becomes(check_source_for(Cur, cur, sub_class), "ranged", cur)
       /\ last_op' = [op |-> "check_source", player |-> cur, sub_class |-> sub_class,
                      found |-> has_source_for(Cur, cur, sub_class)]
  /\ UNCHANGED << asp, round, unused_action_points, history >>

SourceInputs ==
  [draw |-> {"no"}, asp |-> {"card", "token"}, idx |-> {0, 1},
   maxasp |-> MeleeAspLimit, resolve |-> {"1", "2"}, movement |-> {"no"},
   melee |-> {"pass"}, ranged |-> {"pass"}, refortify |-> {"continue"}]

NextSource ==
  \/ StartDrawPhase(SourceInputs)
  \/ HandleAspActions(SourceInputs)
  \/ ResolveAspCard(SourceInputs)
  \/ ResolveAspDone
  \/ MovementPhase(SourceInputs)
  \/ MeleeEnd(SourceInputs)
  \/ CheckSourceOfDamage
  \/ RangedEnd(SourceInputs)

SpecSource == Init /\ [][NextSource]_vars

\* ---------------------------------------------------------------------
\* One round up to the end of Refortify: nobody draws, up to
\* RefortifyAspLimit cards are committed and revealed, the middle phases are
\* passed, and in Refortify the players enter any of the commands.
RefortifyInputs ==
  [draw |-> {"no"}, asp |-> {"card", "token"}, idx |-> {0, 1},
   maxasp |-> RefortifyAspLimit, resolve |-> {"1"}, movement |-> {"no"},
   melee |-> {"pass"}, ranged |-> {"pass"},
   refortify |-> {"draw", "place", "discard", "continue"}]

NextRefortify ==
  \/ StartDrawPhase(RefortifyInputs)
  \/ HandleAspActions(RefortifyInputs)
  \/ ResolveAspCard(RefortifyInputs)
  \/ ResolveAspDone
  \/ MovementPhase(RefortifyInputs)
  \/ MeleeEnd(RefortifyInputs)
  \/ RangedEnd(RefortifyInputs)
  \/ RefortifyCommand(RefortifyInputs)
  \/ RefortifyEnd(RefortifyInputs)

SpecRefortify == Init /\ [][NextRefortify]_vars

\* ---------------------------------------------------------------------
\* The melee-target scenario with Player.retribution_effect called on its
\* own for the player in the Melee phase, after has_attacked was set on
\* cards of the opponent's field zone.

\* The for loop of Player.retribution_effect over the opponent's field zone,
\* from list index i on: the loop removes from the list it iterates over, so
\* the entry that moves into a freed position is never visited.
RECURSIVE retribution_loop(_, _, _, _)
retribution_loop(s, opp, i, flagged) ==
  IF i > Len(s.fz[opp]) THEN s
  ELSE LET opponent_card == s.fz[opp][i]
       IN IF opponent_card \in flagged
          THEN retribution_loop([s EXCEPT !.fz[opp] = RemoveFirst(s.fz[opp], opponent_card),
                                          !.dis[opp] = Append(s.dis[opp], opponent_card)],
                                opp, i + 1, flagged)
          ELSE retribution_loop(s, opp, i + 1, flagged)

\* Player.retribution_effect
retribution_effect(s, p, card, flagged) ==
  IF Attr(card).name = "Ace of Spades" THEN retribution_loop(s, opponent(p), 1, flagged)
  ELSE s

\* attacking_card.has_attacked = True, the assignment of
\* RoundManager.resolve_attack, made for a card of the opponent's field zone
FlagAttacker ==
  /\ pc = "melee"
  /\ \E i \in 1 .. Len(field_zone[opponent(cur)]) :
       /\ ~has_attacked[field_zone[opponent(cur)][i]]
       /\ has_attacked' = [has_attacked EXCEPT ![field_zone[opponent(cur)][i]] = TRUE]
       /\ last_op' = [op |-> "flag", card |-> field_zone[opponent(cur)][i]]
  /\ UNCHANGED << zones, damage_points, action_point, ap_is_str, card_player, pc, cur,
                  round, unused_action_points, history >>

RetributionEffect ==
  /\ pc = "melee"
  /\ \E c \in Cards : has_attacked[c]
  /\ \E card \in Cards :
       /\ DeckOf(card) = cur /\ Attr(card).name = "Ace of Spades"
       /\ Becomes(retribution_effect(Cur, cur, card, {c \in Cards : has_attacked[c]}),
                  "melee", cur)
  /\ last_op' = [op |-> "retribution", player |-> cur]
  /\ UNCHANGED << asp, round, unused_action_points, history >>

NextRetribution ==
  \/ StartDrawPhase(TargetInputs)
  \/ HandleAspActions(TargetInputs)
  \/ ResolveAspCard(TargetInputs)
  \/ ResolveAspDone
  \/ MovementPhase(TargetInputs)
  \/ FlagAttacker
  \/ RetributionEffect
  \/ MeleeEnd(TargetInputs)

SpecRetribution == Init /\ [][NextRetribution]_vars

\* ---------------------------------------------------------------------
\* The melee scenario with the two operations on a wall called on their own
\* by the player in the Melee phase: RoundManager.handle_wall_attack, which
\* no phase calls, for the first card of the opponent's wall, and
\* Player.damage_wall for the opponent's wall.

\* RoundManager.handle_wall_attack: for a trap the branch first evaluates
\* attacking_player.has_block_card(), a method of RoundManager and not of
\* Player (AttributeError); any other card is removed from the wall of the
\* attacking player's opponent and appended to that player's discard pile.
handle_wall_attack(s, attacking_player, target_wall_card) ==
  IF is_trap(target_wall_card)
  THEN Crash(s)
  ELSE LET tp == opponent(attacking_player)
       IN [s EXCEPT !.wall[tp] = RemoveFirst(s.wall[tp], target_wall_card),
                    !.dis[tp] = Append(s.dis[tp], target_wall_card)]

HandleWallAttack ==
  /\ pc = "melee"
  /\ Len(wall[opponent(cur)]) > 0
  /\ LET target_wall_card == Head(wall[opponent(cur)])
     IN /\ Becomes(handle_wall_attack(Cur, cur, target_wall_card), "melee", cur)
        /\ last_op' = [op |-> "wall_attack", player |-> cur, card |-> target_wall_card]
  /\ UNCHANGED << asp, round, unused_action_points, history >>

NextWallAttack ==
  \/ StartDrawPhase(DestroyInputs)
  \/ HandleAspActions(DestroyInputs)
  \/ ResolveAspCard(DestroyInputs)
  \/ ResolveAspDone
  \/ MovementPhase(DestroyInputs)
  \/ HandleWallAttack
  \/ DamageWall
  \/ MeleeEnd(DestroyInputs)

SpecWallAttack == Init /\ [][NextWallAttack]_vars

\* ======================================================================
\* Claims
\* ======================================================================

\* Number of positions, over every container of both players and the ASP,
\* that refer to the card object c
References(c) ==
  LET InPlayer(p) == Occurrences(deck[p], c) + Occurrences(hand[p], c)
                     + Occurrences(wall[p], c) + Occurrences(battlement_zone[p], c)
                     + Occurrences(field_zone[p], c) + Occurrences(discard_pile[p], c)
  IN InPlayer(1) + InPlayer(2) + Cardinality({i \in 1 .. Len(asp) : asp[i][2] = c})

\* C1: in every reachable state each card instance is referenced by exactly
\* one container (deck, hand, wall, battlement zone, field zone, discard pile
\* or the ASP): never at two positions and never at none.
C1_ExactlyOneContainer == \A c \in Cards : References(c) = 1

\* C2: for each player the number of card references in deck, hand, wall,
\* battlement zone, field zone, discard pile and own ASP entries is the same
\* at the end of a round as at its start.
C2_CountConserved ==
  pc = "end_check" => \A p \in Players : RefCount(p) = round_start_count[p]

\* C5: a card's current damage points never become negative.
C5_DamagePointsNonNegative == \A c \in Cards : damage_points[c] >= 0

\* C7: no card whose damage points are <= 0 is still held in a hand, wall,
\* battlement zone or field zone.
C7_NoDestroyedCardInZone ==
  \A p \in Players :
    LET held == hand[p] \o wall[p] \o battlement_zone[p] \o field_zone[p]
    IN \A i \in 1 .. Len(held) : damage_points[held[i]] > 0

\* C8: each phase is completed for both players before the next begins: no
\* melee attack happens before both players have had their Movement phase.
C8_MeleeAfterBothMoved == melee_attackers # {} => movement_done = Players

\* Round baseline of a character's action points
Baseline(c) == IF Attr(c).name \in {"Jack of Clubs", "Jack of Diamonds"} THEN 2 ELSE 1

\* C9: when the next round's Draw begins, every character card in a
\* battlement or field zone has its action points back at its round baseline.
C9_ActionPointsResetEachRound ==
  (pc = "draw" /\ cur = 1 /\ round > 1) =>
    \A p \in Players :
      LET inplay == battlement_zone[p] \o field_zone[p]
      IN \A i \in 1 .. Len(inplay) :
           Attr(inplay[i]).is_a_character => action_point[inplay[i]] = Baseline(inplay[i])

\* C3: ASP resolution order is exactly the reverse of placement order, by
\* whichever players and in whatever interleaving the cards were committed,
\* and each card is resolved for the player who committed it: the commits of
\* the round are the entries still on the pile followed by the resolved
\* entries, last resolved first, and every resolution acts for the player
\* recorded with the card when it was committed.
C3_AspLifo ==
  /\ placed = asp \o Reverse(resolved)
  /\ (pc \in {"asp_resolve", "movement"} /\ Len(resolved) > 0
        /\ last_op.op \in {"reveal", "discard", "place", "trap"}) =>
       << last_op.player, last_op.card >> = placed[Len(placed) + 1 - Len(resolved)]

\* Three cards committed by both players have all been resolved
C3_Witness ==
  /\ pc = "movement"
  /\ Len(resolved) = 3
  /\ \E i, j \in 1 .. 3 : resolved[i][1] # resolved[j][1]
  /\ resolved[1] # resolved[3]

\* C4: each wall holds at most 14 cards; a placement with 14 cards in the
\* wall puts the card in that player's discard pile and leaves the wall
\* unchanged; a placement with fewer than 14 appends the card to the wall.
C4_WallCapacity ==
  /\ [](\A p \in Players : Len(wall[p]) <= 14)
  /\ [][last_op'.op = "place" =>
          LET p == last_op'.player
              c == last_op'.card
          IN IF Len(wall[p]) = 14
             THEN wall'[p] = wall[p] /\ discard_pile'[p] = Append(discard_pile[p], c)
             ELSE wall'[p] = Append(wall[p], c) /\ discard_pile'[p] = discard_pile[p]]_vars

\* A fifteenth placement was made and went to the discard pile
C4_Witness ==
  /\ last_op.op = "place"
  /\ last_op.wall_before = 14
  /\ Len(wall[last_op.player]) = 14
  /\ Len(discard_pile[last_op.player]) > 0

\* The end condition of the game, on the state itself
EndCondition ==
  \/ \E p \in Players : hand[p] = << >> /\ field_zone[p] = << >> /\ wall[p] = << >>
  \/ \E p \in Players : deck[p] = << >>

\* C10: at the end of a round the game ends if and only if some player's
\* hand, field zone and wall are all empty or some deck is empty; otherwise
\* another round starts; nothing else ends the game.
C10_GameEndsIffCondition ==
  /\ [][pc = "end_check" /\ pc' # "end_check" =>
          IF EndCondition THEN pc' = "game_over"
          ELSE pc' = "draw" /\ round' = round + 1 /\ cur' = 1]_vars
  /\ [][pc' = "game_over" => pc \in {"end_check", "game_over"}]_vars

\* A game ended at the end of a round
C10_Witness == pc = "game_over" /\ EndCondition

\* C6: after any sequence of take_damage, destroy_card and
\* remove_from_zone_and_discard calls a card appears at most once in a
\* discard pile: destroying or damaging a card that is already discarded
\* changes nothing.
C6_DestroyedOnce ==
  \A p \in Players : \A c \in Cards : Occurrences(discard_pile[p], c) <= 1

\* The score of player p, counted on the state itself
Score(p) ==
  2 * Cardinality({i \in 1 .. Len(field_zone[p]) : Attr(field_zone[p][i]).is_a_character})
  + 2 * Cardinality({i \in 1 .. Len(wall[p]) : Attr(wall[p][i]).name = "7"})

\* C11 (as stated): in every final state the declared winner is the player
\* whose score is higher than the other player's, and the score announced is
\* 2 x (characters in own field zone) + 2 x (trap-rank cards in own wall).
C11_WinnerHasHigherScore ==
  pc = "game_over" =>
    /\ last_op.points = Score(last_op.winner)
    /\ Score(last_op.winner) > Score(opponent(last_op.winner))

\* C11 (amended): in every final state the score announced for the winner is
\* 2 x (characters in own field zone) + 2 x (trap-rank cards in own wall);
\* no player has a higher score than the declared winner, and when the
\* scores are equal the first player is declared the winner.
C11_WinnerHasHighestScore ==
  pc = "game_over" =>
    /\ last_op.points = Score(last_op.winner)
    /\ \A p \in Players : Score(p) <= Score(last_op.winner)
    /\ (Score(1) = Score(2) => last_op.winner = 1)

\* A game ended with the second player ahead, a character in the field zone
C11_Witness ==
  /\ pc = "game_over"
  /\ last_op.winner = 2
  /\ Score(2) > Score(1)
  /\ field_zone[2] # << >>

\* C12: a deck is built with 2n + 2 entries for a catalog of n cards; after
\* the initial deal each player has 10 cards in the wall, 10 in hand and
\* 2n + 2 - 20 entries in the deck, and the battlement zone, the field zone
\* and the discard pile are empty.
C12_InitialDeal ==
  last_op.op = "init" =>
    \A p \in Players :
      /\ Len(BuildDeck(p, NCatalog)) = 2 * NCatalog + 2
      /\ Len(wall[p]) = 10 /\ \A i \in 1 .. 10 : wall[p][i] \in Cards
      /\ Len(hand[p]) = 10 /\ \A i \in 1 .. 10 : hand[p][i] \in Cards
      /\ Len(deck[p]) = 2 * NCatalog + 2 - 20
      /\ battlement_zone[p] = << >> /\ field_zone[p] = << >> /\ discard_pile[p] = << >>

\* The game as constructed, before any decision
C12_Witness == last_op.op = "init" /\ pc = "draw" /\ round = 1 /\ asp = << >>

\* C19: drawing from an empty deck adds nothing, no placeholder entry in
\* particular, to a hand or a wall, in Player.draw_card and in the initial
\* deal of 20 cards from a deck of fewer than 20 entries.
C19_NoPlaceholderDrawn ==
  \A p \in Players :
    /\ \A i \in 1 .. Len(hand[p]) : hand[p][i] # NoCard
    /\ \A i \in 1 .. Len(wall[p]) : wall[p][i] # NoCard

\* The step that reveals a Joker from the ASP for a player without a
\* character in the battlement or the field zone
JokerWithoutCharacters ==
  /\ pc = "asp_resolve"
  /\ Len(asp) > 0
  /\ Attr(asp[Len(asp)][2]).name = "Joker"
  /\ LET p == asp[Len(asp)][1]
         own == battlement_zone[p] \o field_zone[p]
     IN \A i \in 1 .. Len(own) : ~Attr(own[i]).is_a_character
  /\ last_op'.op = "reveal"

\* What the step leaves behind: the Joker once more in the player's discard
\* pile, no damage, no action point spent, the opponent's zones as they were
JokerOnlyDiscarded ==
  LET p == asp[Len(asp)][1]
      joker == asp[Len(asp)][2]
      o == opponent(p)
  IN /\ discard_pile'[p] = Append(discard_pile[p], joker)
     /\ damage_points' = damage_points
     /\ action_point' = action_point
     /\ hand'[o] = hand[o] /\ wall'[o] = wall[o] /\ deck'[o] = deck[o]
     /\ battlement_zone'[o] = battlement_zone[o] /\ field_zone'[o] = field_zone[o]
     /\ discard_pile'[o] = discard_pile[o]

JokerRevealed ==
  /\ pc = "asp_resolve"
  /\ Len(asp) > 0
  /\ Attr(asp[Len(asp)][2]).name = "Joker"
  /\ last_op'.op = "reveal"

\* C14: Joker damage goes to the opponent's field zone first, then the wall,
\* then the battlement zone: no wall card is hit while the opponent's field
\* zone is non-empty, and no battlement card is hit while the field zone or
\* the wall is non-empty, whichever zone was chosen for bonus damage.
C14_JokerDamageOrder ==
  [][JokerRevealed =>
       LET o == opponent(asp[Len(asp)][1])
       IN /\ field_zone[o] # << >> => wall'[o] = wall[o]
          /\ (field_zone[o] # << >> \/ wall[o] # << >>) =>
               battlement_zone'[o] = battlement_zone[o]]_vars

\* Sum of f[1] .. f[n]
RECURSIVE Total(_, _)
Total(f, n) == IF n = 0 THEN 0 ELSE f[n] + Total(f, n - 1)

\* C15: when a Joker is resolved with an own character present, each
\* character gives up at most one action point, and the damage points and
\* wall cards taken from the opponent never exceed 2 plus the action points
\* spent: the application stops when the remaining damage reaches zero.
C15_JokerDamageBounded ==
  [][(JokerRevealed /\ LET p == asp[Len(asp)][1]
                           own == battlement_zone[p] \o field_zone[p]
                       IN \E i \in 1 .. Len(own) : Attr(own[i]).is_a_character) =>
       LET o == opponent(asp[Len(asp)][1])
           spent == Total([c \in Cards |-> action_point[c] - action_point'[c]], 2 * KindsPerDeck)
           taken == Total([c \in Cards |-> damage_points[c] - damage_points'[c]], 2 * KindsPerDeck)
                    + Len(wall[o]) - Len(wall'[o])
       IN /\ \A c \in Cards : action_point[c] - action_point'[c] \in {0, 1}
          /\ taken <= 2 + spent]_vars

\* C16: a melee action by an attacker with 0 action points is rejected: no
\* damage is applied, no card changes zone, and no action-point value
\* changes (a value held as text is read as a number, and stays 0).
C16_MeleeWithoutPointsRejected ==
  [][(last_op'.op = "perform_melee" /\ action_point[last_op'.card] = 0) =>
       /\ damage_points' = damage_points
       /\ action_point' = action_point
       /\ UNCHANGED zones
       /\ pc' = pc]_vars

\* A melee action was attempted by a card without action points while the
\* opponent had cards to attack
C16_Witness ==
  /\ last_op.op = "perform_melee"
  /\ last_op.ap_before = 0
  /\ field_zone[opponent(last_op.player)] \o wall[opponent(last_op.player)] # << >>

\* The step in which a ranged character is selected while its owner's hand
\* holds no card named as the character's source of damage
RangedWithoutSource ==
  /\ pc = "ranged"
  /\ last_op'.op = "ranged"
  /\ LET need == IF Attr(last_op'.card).sub_class \in {"2", "3", "Jack"} THEN "Ammo" ELSE "Magic"
     IN \A i \in 1 .. Len(hand[cur]) : Attr(hand[cur][i]).name # need

\* C17: a ranged action attempted without the required damage source in the
\* attacker's hand is blocked: the attacker's action points, both hands, the
\* discard piles and all other zones are unchanged, and the phase goes on.
C17_RangedWithoutSourceBlocked ==
  [][RangedWithoutSource =>
       /\ action_point' = action_point
       /\ damage_points' = damage_points
       /\ UNCHANGED zones
       /\ pc' = "ranged"]_vars

\* A ranged character was selected while its owner held no source of damage
C17_Witness ==
  /\ last_op.op = "ranged"
  /\ ~last_op.source
  /\ pc = "ranged"
  /\ action_point[last_op.card] > 0

\* C18: in every reachable state every card's action points are
\* non-negative: no operation decrements an action-point value that is
\* already 0.
C18_ActionPointsNonNegative == \A c \in Cards : action_point[c] >= 0

\* C20: a response outside the allowed set leaves the game state unchanged
\* (the same decision is asked again); checked at the draw-two target
\* choice, whose allowed answers are 'self' and 'opponent'.
C20_InvalidAnswerChangesNothing ==
  [][(last_op'.op = "draw_two" /\ last_op'.choice \notin {"self", "opponent"})
       => UNCHANGED << zones, cardstate >>]_vars

\* The cards a player has in play: wall, battlement zone and field zone
InPlay(p) == wall[p] \o battlement_zone[p] \o field_zone[p]

\* C21: the target of a melee attack is a card of the opponent's field zone
\* when that zone is non-empty and a card of the opponent's wall only when
\* the field zone is empty; it is never a card of the opponent's battlement
\* zone nor a card of the attacker's own zones, and with field zone and wall
\* both empty no target is selected.
C21_MeleeTargetZone ==
  [][last_op'.op = "melee" =>
       LET opp == opponent(cur)
           target == last_op'.target
       IN /\ field_zone[opp] # << >> =>
               Contains(field_zone[opp], target) /\ ~Contains(wall[opp], target)
          /\ (field_zone[opp] = << >> /\ wall[opp] # << >>) => Contains(wall[opp], target)
          /\ (field_zone[opp] = << >> /\ wall[opp] = << >>) => target = NoCard
          /\ ~Contains(battlement_zone[opp], target)
          /\ ~Contains(InPlay(cur), target)]_vars

\* C22: every melee action started by a field-zone attacker with action
\* points above 0 leaves the attacker with exactly one action point fewer,
\* whether the target is destroyed, survives, or no target is available.
C22_MeleeSpendsOnePoint ==
  [][last_op'.op = "melee" =>
       action_point'[last_op'.card] = action_point[last_op'.card] - 1]_vars

\* C23: after a melee attack that destroys its target the attacking card's
\* has_attacked flag is set.
C23_AttackerFlagged ==
  [][(last_op'.op = "melee" /\ last_op'.target # NoCard
        /\ damage_points'[last_op'.target] <= 0)
       => has_attacked'[last_op'.card]]_vars

\* C24: a ranged attack whose damage-source card went from the attacking
\* player's hand to that player's discard pile executes and completes by
\* spending exactly one action point of the attacker: a consumed source is
\* never lost without the attack.
C24_ConsumedSourceAttackCompletes ==
  [][(pc = "ranged" /\ last_op'.op = "ranged" /\ last_op'.source)
       => /\ Len(hand'[cur]) = Len(hand[cur]) - 1
          /\ Len(discard_pile'[cur]) = Len(discard_pile[cur]) + 1
          /\ pc' = "ranged"
          /\ action_point'[last_op'.card] = action_point[last_op'.card] - 1]_vars

\* The resource the claim maps a ranged character's sub-class to
MappedResource(sub_class) == IF sub_class \in {"2", "3", "Jack"} THEN "Ammo" ELSE "Magic"

\* C25: the damage-source requirement is total: Ammo for the sub-classes
\* '2', '3' and 'Jack', Magic for every other sub-class, so that a ranged
\* character of any sub-class passes the check, the resource card going from
\* hand to discard pile, when its owner holds the mapped resource.
C25_SourceRequirementTotal ==
  [][(pc = "ranged" /\ last_op'.op = "check_source"
        /\ \E i \in 1 .. Len(hand[cur]) :
             Attr(hand[cur][i]).name = MappedResource(last_op'.sub_class))
       => /\ last_op'.found
          /\ Len(hand'[cur]) = Len(hand[cur]) - 1
          /\ Attr(discard_pile'[cur][Len(discard_pile'[cur])]).name
               = MappedResource(last_op'.sub_class)]_vars

\* C26: for a non-trap card popped from the ASP the owner's choice decides
\* where the card goes: Discard puts it on the owner's discard pile, Place
\* puts it in the owner's wall (on the discard pile when the wall is full),
\* Reveal puts a character in the chosen battlement or field zone; a trap
\* card is never given the choice.
C26_ChoiceDecidesDestination ==
  [][(pc = "asp_resolve" /\ last_op'.op \in {"discard", "place", "reveal"}) =>
       LET player == last_op'.player
           card == last_op'.card
       IN /\ ~is_trap(card)
          /\ last_op'.op = "discard" =>
               discard_pile'[player] = Append(discard_pile[player], card)
          /\ last_op'.op = "place" =>
               IF Len(wall[player]) < WallCapacity
               THEN wall'[player] = Append(wall[player], card)
               ELSE discard_pile'[player] = Append(discard_pile[player], card)
          /\ (last_op'.op = "reveal" /\ Attr(card).is_a_character) =>
               IF last_op'.in.zone = "battlement_zone"
               THEN battlement_zone'[player] = Append(battlement_zone[player], card)
               ELSE field_zone'[player] = Append(field_zone[player], card)]_vars

\* C27: ASP placement starts with the first player and the players take
\* turns alternately; each turn either moves one card from the acting
\* player's hand onto the top of the ASP (the other player is next) or
\* places the first-player token (placement ends); outside placement no
\* card is committed.
C27_AspTurns ==
  [][/\ (pc # "asp_place" /\ pc' = "asp_place") => cur' = 1
     /\ pc = "asp_place" =>
          \/ /\ \E i \in 1 .. Len(hand[cur]) :
                  /\ hand'[cur] = PopAt(hand[cur], i - 1)
                  /\ asp' = Append(asp, << cur, hand[cur][i] >>)
             /\ pc' = "asp_place"
             /\ cur' = opponent(cur)
          \/ /\ last_op'.op = "token"
             /\ pc' = "asp_resolve"
             /\ asp' = asp
             /\ hand' = hand
     /\ pc # "asp_place" => Len(asp') <= Len(asp)]_vars

\* C28: the ASP is empty whenever a phase other than ASP placement or ASP
\* resolution is active: every card committed in a round is popped before
\* Movement begins.
C28_AspEmptyOutsideAspPhases ==
  pc \in {"draw", "movement", "melee", "ranged", "refortify", "end_check", "game_over"}
    => asp = << >>

\* ScoreAspLimit cards were committed and resolved, and the round has reached
\* Refortify
C28_Witness ==
  /\ pc = "refortify"
  /\ Len(placed) = ScoreAspLimit
  /\ Len(resolved) = Len(placed)
  /\ asp = << >>

\* C29: a Movement action completes without failure for every index list
\* entered, repeated indices included; it only takes cards out of the
\* player's battlement zone and appends them to that player's field zone, so
\* the number of cards in battlement zone plus field zone is unchanged, and
\* it changes nothing else; no step of any phase moves a card from a field
\* zone back to a battlement zone.
C29_MovementFrame ==
  [][/\ (pc = "movement" /\ last_op'.op = "movement") =>
          /\ pc' = "melee"
          /\ Len(battlement_zone'[cur]) + Len(field_zone'[cur])
               = Len(battlement_zone[cur]) + Len(field_zone[cur])
          /\ Len(field_zone'[cur]) >= Len(field_zone[cur])
          /\ SubSeq(field_zone'[cur], 1, Len(field_zone[cur])) = field_zone[cur]
          /\ \A i \in Len(field_zone[cur]) + 1 .. Len(field_zone'[cur]) :
               Contains(battlement_zone[cur], field_zone'[cur][i])
          /\ battlement_zone'[opponent(cur)] = battlement_zone[opponent(cur)]
          /\ field_zone'[opponent(cur)] = field_zone[opponent(cur)]
          /\ UNCHANGED << deck, hand, wall, discard_pile, asp, cardstate >>
     /\ \A p \in Players :
          Len(battlement_zone'[p]) > Len(battlement_zone[p]) => last_op'.op = "reveal"]_vars

\* Sum of the unused action points over a player's zones
RECURSIVE PointsOf(_)
PointsOf(cards) ==
  IF cards = << >> THEN 0
  ELSE (IF action_point[Head(cards)] > 0 THEN action_point[Head(cards)] ELSE 0)
       + PointsOf(Tail(cards))

ZonePoints(p) == PointsOf(battlement_zone[p]) + PointsOf(field_zone[p])

\* C30: in a Refortify phase the budget is the sum of the unused action
\* points over the player's battlement and field zones at the start of the
\* phase; every secondary action (draw, place, discard) needs a budget above
\* zero and takes one point from it while that sum stays as it was, so the
\* actions performed never exceed the sum; the phase is left only by the
\* step taken for 'continue' or an exhausted budget.
C30_RefortifyWithinBudget ==
  [][/\ (pc' = "refortify" /\ (pc # "refortify" \/ cur' # cur)) =>
          \A p \in Players : p = cur' => unused_action_points' = ZonePoints(p)'
     /\ (pc = "refortify" /\ pc' = "refortify" /\ cur' = cur) =>
          /\ unused_action_points > 0
          /\ unused_action_points' = unused_action_points - 1
          /\ ZonePoints(cur)' = ZonePoints(cur)
          /\ unused_action_points <= ZonePoints(cur)
     /\ (pc = "refortify" /\ pc' # "crashed" /\ (pc' # "refortify" \/ cur' # cur)) =>
          last_op'.op = "refortify_end"]_vars

\* A player with a budget of at least two has spent all of it on commands
C30_Witness ==
  /\ pc = "refortify"
  /\ ZonePoints(cur) >= 2
  /\ unused_action_points = 0
  /\ last_op.op \in {"place", "refortify_noop", "refortify_draw", "refortify_place_invalid"}

\* C31: each secondary action taken in Refortify spends one of the player's
\* unused action points, so that the sum of the action points over the
\* player's battlement and field cards goes down by one, and a command that
\* performs no action ('draw' without holding a Ten, 'place' with an index
\* outside the hand) spends nothing.
C31_RefortifySpendsCardPoints ==
  [][/\ (pc = "refortify" /\ last_op'.op = "place") =>
          ZonePoints(cur)' = ZonePoints(cur) - 1
     /\ (pc = "refortify"
           /\ \/ last_op'.op = "refortify_draw" /\ ~has_card(Cur, cur, "Ten")
              \/ last_op'.op = "refortify_place_invalid") =>
          /\ unused_action_points' = unused_action_points
          /\ ZonePoints(cur)' = ZonePoints(cur)]_vars

\* C32: a non-character card revealed from the ASP ends on its owner's
\* discard pile whether its ability took effect or not, and the reveal
\* raises no error.
C32_RevealedCardDiscarded ==
  [][(pc = "asp_resolve" /\ last_op'.op = "reveal" /\ ~is_a_character(last_op'.card)) =>
       /\ pc' = "asp_resolve"
       /\ Contains(discard_pile'[last_op'.player], last_op'.card)]_vars

\* Number of positions of a list that hold the card
Count(cards, c) == Cardinality({i \in 1 .. Len(cards) : cards[i] = c})

\* C33: after retribution_effect returns, no card with has_attacked set
\* remains in the opponent's field zone, for any number and arrangement of
\* flagged cards, and each destroyed card is in the opponent's discard pile
\* exactly once.
C33_RetributionDestroysFlagged ==
  [][(pc = "melee" /\ last_op'.op = "retribution") =>
       LET opp == opponent(cur)
       IN /\ \A i \in 1 .. Len(field_zone'[opp]) : ~has_attacked[field_zone'[opp][i]]
          /\ \A i \in 1 .. Len(field_zone[opp]) :
               has_attacked[field_zone[opp][i]] =>
                 Count(discard_pile'[opp], field_zone[opp][i]) = 1]_vars

\* C34: after handle_wall_attack the revealed wall card, trap or not, is no
\* longer in the defender's wall and is in the defender's discard pile.
C34_WallAttackDiscardsRevealedCard ==
  [][(pc = "melee" /\ last_op'.op = "wall_attack") =>
       LET defender == opponent(cur)
       IN /\ ~Contains(wall'[defender], last_op'.card)
          /\ Contains(discard_pile'[defender], last_op'.card)]_vars

\* C35: damage_wall with damage d against a wall of w cards removes exactly
\* min(d, w) cards from the front of the wall and appends them, traps
\* included, in that order to the wall owner's discard pile; the rest of the
\* wall keeps its order and no other zone of either player changes.
C35_DamageWallRemovesFront ==
  [][(pc = "melee" /\ last_op'.op = "damage_wall") =>
       LET tp == opponent(cur)
           w == Len(wall[tp])
           n == IF last_op'.damage < w THEN last_op'.damage ELSE w
       IN /\ pc' = "melee"
          /\ wall'[tp] = SubSeq(wall[tp], n + 1, w)
          /\ discard_pile'[tp] = discard_pile[tp] \o SubSeq(wall[tp], 1, n)
          /\ wall'[cur] = wall[cur]
          /\ discard_pile'[cur] = discard_pile[cur]
          /\ UNCHANGED << deck, hand, battlement_zone, field_zone >>]_vars

\* A wall with fewer cards than the damage was hit and lost all of them, and
\* a trap lies among the discarded wall cards.
C35_Witness ==
  /\ pc = "melee"
  /\ last_op.op = "damage_wall"
  /\ last_op.damage > last_op.wall_cards
  /\ Len(wall[opponent(cur)]) = 0
  /\ \E i \in 1 .. Len(discard_pile[opponent(cur)]) : is_trap(discard_pile[opponent(cur)][i])

\* C36: cards never cross between players: every card in a player's deck,
\* hand, wall, battlement zone, field zone or discard pile comes from that
\* player's own deck; in particular a card destroyed by a melee attack lies in
\* the discard pile of the card's owner, whichever player attacked.
C36_CardsStayWithOwner ==
  \A p \in Players :
    \A i \in 1 .. Len(deck[p] \o hand[p] \o InPlay(p) \o discard_pile[p]) :
      DeckOf((deck[p] \o hand[p] \o InPlay(p) \o discard_pile[p])[i]) = p

\* The action points of the melee characters handle_melee_actions offers to
\* player p, added up
EligiblePoints(p) == PointsOf(melee_characters(Cur, p))

\* C37: every selection in a player's Melee phase strictly decreases the
\* total action points of that player's eligible field-zone melee characters,
\* also when the opponent has no card in the field zone or the wall, so the
\* phase ends even if the player never passes.
C37_MeleeSelectionDecreasesPoints ==
  [][last_op'.op = "melee" => EligiblePoints(cur)' < EligiblePoints(cur)]_vars

\* C38: revealing a Joker resolves the Joker effect exactly once: the reveal
\* does what resolve_joker does and runs no other ability handler, so it
\* leaves the zones as resolve_joker leaves them and raises an error only if
\* resolve_joker raises one.
C38_JokerResolvedOnce ==
  [][JokerRevealed =>
       LET in == last_op'.in
           r == resolve_joker(Cur, last_op'.player, last_op'.card, in.zone, in.yes, in.idx)
       IN /\ (pc' = "crashed") = r.crashed
          /\ discard_pile' = r.dis
          /\ wall' = r.wall
          /\ battlement_zone' = r.bz
          /\ field_zone' = r.fz
          /\ damage_points' = r.dp
          /\ action_point' = r.ap]_vars

\* C39: when the game ends with both players on the same score,
\* determine_winner returns the first player together with the shared score:
\* never the second player and never a draw.
C39_TieGoesToFirstPlayer ==
  (pc = "game_over" /\ Score(1) = Score(2)) =>
    /\ last_op.winner = 1
    /\ last_op.points = Score(2)

\* A game ended in a tie with characters in both field zones
C39_Witness ==
  /\ pc = "game_over"
  /\ Score(1) = Score(2)
  /\ \E i \in 1 .. Len(field_zone[1]) : is_a_character(field_zone[1][i])
  /\ \E i \in 1 .. Len(field_zone[2]) : is_a_character(field_zone[2][i])
  /\ last_op.winner = 1

====
